---------------------------- MODULE Spec2Model ----------------------------
(***************************************************************************)
(* Model of the commenter ranking and Instagram profile resolution scripts *)
(*   src/scripts/extract_comments.py          (bio link extraction)        *)
(*   src/scripts/scripts/rank_commenters.py   (aggregation and ranking)    *)
(*   src/scripts/find_instagram_profiles.py   (resolver with bio check)    *)
(*   src/github/workflows/scripts/scripts/scripts/find_instagram_profiles.py *)
(*                                            (workflow resolver variant)  *)
(*                                                                         *)
(* Python strings are sequences of one-character strings, so that          *)
(* replace, lower, split, strip, "in" and the regular expressions are      *)
(* computed character by character.                                        *)
(***************************************************************************)
EXTENDS Integers, Sequences, FiniteSets, TLC

VARIABLES
    pc,               \* position of the script being run
    username,         \* scorer: the commenter's display name
    ig_username,      \* scorer: the candidate handle
    score,            \* scorer: tier computed by search_instagram_profile
    valid,            \* scorer: verdict of is_valid_instagram_profile
    description,      \* extractor: the channel description
    instagram_links,  \* extractor: the links list built from it
    match_log,        \* extractor: pattern and text position of each link
    comments,         \* ranker: the comment records written by the extractor
    limit,            \* ranker: --limit
    ranked,           \* ranker: the frame rank_commenters returns
    df,               \* resolver: the input frame, one row per commenter
    has_bio_column,   \* resolver: 'instagram_from_description' in row
    credentials,      \* resolver: both API environment variables are set
    i,                \* resolver: index label of the row being processed
    results,          \* resolver: the results list
    search_log,       \* resolver: index labels of the rows searched for
    output            \* resolver: the frame written to --output-file

vars == <<pc, username, ig_username, score, valid, description,
          instagram_links, match_log, comments, limit, ranked, df,
          has_bio_column, credentials, i, results, search_log, output>>

scoreVars   == <<username, ig_username, score, valid>>
extractVars == <<description, instagram_links, match_log>>
rankVars    == <<comments, limit, ranked>>
resolveVars == <<df, has_bio_column, credentials, i, results, search_log,
                 output>>

-----------------------------------------------------------------------------
(* Bounds of the model *)

\* longest display name and candidate handle given to the scorer
MaxLen == 3

-----------------------------------------------------------------------------
(* Python string primitives *)

\* all strings over alphabet A of length at most n
RECURSIVE StringsUpTo(_, _)
StringsUpTo(A, n) ==
    IF n = 0 THEN {<<>>}
    ELSE LET shorter == StringsUpTo(A, n - 1)
         IN  shorter \cup {Append(s, c) : s \in {t \in shorter : Len(t) = n - 1}, c \in A}

UpperLetters == <<"A","B","C","D","E","F","G","H","I","J","K","L","M",
                  "N","O","P","Q","R","S","T","U","V","W","X","Y","Z">>
LowerLetters == <<"a","b","c","d","e","f","g","h","i","j","k","l","m",
                  "n","o","p","q","r","s","t","u","v","w","x","y","z">>
Digits == {"0","1","2","3","4","5","6","7","8","9"}

UpperSet == {UpperLetters[k] : k \in 1..Len(UpperLetters)}
LowerSet == {LowerLetters[k] : k \in 1..Len(LowerLetters)}
LowerOf  == [c \in UpperSet |->
                LowerLetters[CHOOSE k \in 1..Len(UpperLetters) : UpperLetters[k] = c]]

\* str.lower() on one character
LowerChar(c) == IF c \in UpperSet THEN LowerOf[c] ELSE c

\* s.lower()
Lower(s) == [k \in 1..Len(s) |-> LowerChar(s[k])]

\* s.replace(c, '')
RemoveChar(s, c) == SelectSeq(s, LAMBDA x : x # c)

\* a in b  (substring test; '' is in every string)
IsSubstring(a, b) ==
    \E k \in 0..(Len(b) - Len(a)) : SubSeq(b, k + 1, k + Len(a)) = a

\* set(s)
CharSet(s) == {s[k] : k \in 1..Len(s)}

\* s.startswith(p)
StartsWith(s, p) == Len(p) <= Len(s) /\ SubSeq(s, 1, Len(p)) = p

\* p occurs in s at 1-based position k
OccursAt(s, p, k) ==
    k >= 1 /\ k + Len(p) - 1 <= Len(s) /\ SubSeq(s, k, k + Len(p) - 1) = p

-----------------------------------------------------------------------------
(* The similarity check of src/scripts/find_instagram_profiles.py *)

\* clean_username = username.replace(' ', '').replace('@', '').lower()
CleanUsername(name) == Lower(RemoveChar(RemoveChar(name, " "), "@"))

\* len(set(clean_username) & set(ig_username.lower())) > len(clean_username) * 0.5
CharOverlap(clean, ig_lower) ==
    2 * Cardinality(CharSet(clean) \cap CharSet(ig_lower)) > Len(clean)

\* variant of a scorer that forgets to lowercase the candidate
SimilarityCheckNoLower(clean_username, ig) ==
    IF \/ IsSubstring(clean_username, ig)
       \/ IsSubstring(ig, clean_username)
       \/ CharOverlap(clean_username, ig)
    THEN IF IsSubstring(clean_username, ig) THEN "high" ELSE "medium"
    ELSE "none"

\* variant of a scorer that gives high for a substring in either direction
SimilarityCheckSymmetric(clean_username, ig) ==
    IF \/ IsSubstring(clean_username, Lower(ig))
       \/ IsSubstring(Lower(ig), clean_username)
    THEN "high"
    ELSE IF CharOverlap(clean_username, Lower(ig)) THEN "medium" ELSE "none"

\* the "Simple similarity check" and the match_confidence it leads to;
\* "none" stands for a candidate that is not accepted
SimilarityCheck(clean_username, ig) ==
    IF \/ IsSubstring(clean_username, Lower(ig))
       \/ IsSubstring(Lower(ig), clean_username)
       \/ CharOverlap(clean_username, Lower(ig))
    THEN IF IsSubstring(clean_username, Lower(ig)) THEN "high" ELSE "medium"
    ELSE "none"

-----------------------------------------------------------------------------
(* The validator of the workflow variant *)

WWW_INSTAGRAM == <<"h","t","t","p","s",":","/","/","w","w","w",".","i","n","s","t","a","g","r","a","m",".","c","o","m","/">>
INSTAGRAM_COM == <<"i","n","s","t","a","g","r","a","m",".","c","o","m","/">>

\* the value None
None == <<"None">>

\* longest prefix of s from position k made of characters not in stop
RECURSIVE RunUntil(_, _, _)
RunUntil(s, k, stop) ==
    IF k > Len(s) \/ s[k] \in stop THEN <<>>
    ELSE <<s[k]>> \o RunUntil(s, k + 1, stop)

\* re.search(r'instagram\.com/([^/?]+)', url): group 1 of the leftmost match
extract_instagram_username(url) ==
    LET starts == {k \in 1..Len(url) :
                      /\ OccursAt(url, INSTAGRAM_COM, k)
                      /\ RunUntil(url, k + Len(INSTAGRAM_COM), {"/", "?"}) # <<>>}
    IN  IF starts = {} THEN None
        ELSE LET k == CHOOSE m \in starts : \A n \in starts : m <= n
             IN  RunUntil(url, k + Len(INSTAGRAM_COM), {"/", "?"})

\* re.sub(r'[._-]', '', s)
StripSeparators(s) == SelectSeq(s, LAMBDA x : x \notin {".", "_", "-"})

is_valid_instagram_profile(url, name) ==
    IF ~StartsWith(url, WWW_INSTAGRAM) THEN FALSE
    ELSE LET ig == extract_instagram_username(url)
         IN  IF ig = None THEN FALSE
             ELSE LET username_lower    == Lower(name)
                      ig_username_lower == Lower(ig)
                  IN  IF username_lower = ig_username_lower THEN TRUE
                      ELSE IF \/ IsSubstring(username_lower, ig_username_lower)
                              \/ IsSubstring(ig_username_lower, username_lower)
                           THEN TRUE
                      ELSE StripSeparators(username_lower)
                               = StripSeparators(ig_username_lower)

-----------------------------------------------------------------------------
(* Scorer specification: every pair of display name and candidate handle *)

NameAlphabet == {"a", "A", " ", "@", "."}
Names == StringsUpTo(NameAlphabet, MaxLen)

IdleScore   == /\ username = <<>> /\ ig_username = <<>>
               /\ score = "unset" /\ valid = FALSE
IdleExtract == /\ description = <<>> /\ instagram_links = <<>>
               /\ match_log = <<>>
IdleRank    == /\ comments = <<>> /\ limit = 0 /\ ranked = <<>>
IdleResolve == /\ df = <<>> /\ has_bio_column = FALSE /\ credentials = FALSE
               /\ i = 0 /\ results = <<>> /\ search_log = <<>>
               /\ output = [written |-> FALSE, rows |-> <<>>]

InitScore ==
    /\ pc = "score_input"
    /\ username \in Names
    /\ ig_username \in Names
    /\ score = "unset"
    /\ valid = FALSE
    /\ IdleExtract /\ IdleRank /\ IdleResolve

\* the similarity check of search_instagram_profile on one candidate
ScoreCandidate ==
    /\ pc = "score_input"
    /\ score' = SimilarityCheck(CleanUsername(username), ig_username)
    /\ pc' = "scored"
    /\ UNCHANGED <<username, ig_username, valid>>
    /\ UNCHANGED <<extractVars, rankVars, resolveVars>>

\* is_valid_instagram_profile on the candidate's profile URL
ValidateCandidate ==
    /\ pc = "score_input"
    /\ valid' = is_valid_instagram_profile(WWW_INSTAGRAM \o ig_username, username)
    /\ pc' = "validated"
    /\ UNCHANGED <<username, ig_username, score>>
    /\ UNCHANGED <<extractVars, rankVars, resolveVars>>

NextScore == ScoreCandidate \/ ValidateCandidate

SpecScore == InitScore /\ [][NextScore]_vars

-----------------------------------------------------------------------------
(* Claims about the scorer *)

\* both strings cleaned, as the rule list of the specification reads them
ClaimedScore(target, candidate) ==
    LET t == CleanUsername(target)
        c == CleanUsername(candidate)
    IN  IF t = c THEN "high"
        ELSE IF IsSubstring(t, c) \/ IsSubstring(c, t) THEN "high"
        ELSE IF StripSeparators(t) = StripSeparators(c) THEN "high"
        ELSE IF 2 * Cardinality(CharSet(t) \cap CharSet(c)) > Len(t) THEN "medium"
        ELSE "none"

\* C4 as stated: the score is the five-rule list (equal -> high, substring in
\* either direction -> high, equal without separators -> high, shared
\* characters above half the target's length -> medium, otherwise none).
C4_Original ==
    pc = "scored" => score = ClaimedScore(username, ig_username)

\* C4 amended: with the target cleaned and the candidate only lowercased, the
\* tier is high when the cleaned target is a substring of the candidate
\* (equality included), medium when the candidate is a substring of the
\* cleaned target or more than half the target's length of distinct
\* characters are shared, and none otherwise; separators are stripped only by
\* the workflow validator, which accepts (without a tier) a non-empty handle
\* that is equal to, contains, is contained in, or equals without separators
\* the lowercased display name.
C4_ScoreRules ==
    LET t == CleanUsername(username)
        c == Lower(ig_username)
        n == Lower(username)
    IN  /\ pc = "scored" =>
              score = (IF IsSubstring(t, c) THEN "high"
                       ELSE IF IsSubstring(c, t) THEN "medium"
                       ELSE IF 2 * Cardinality(CharSet(t) \cap CharSet(c)) > Len(t)
                            THEN "medium"
                       ELSE "none")
        /\ pc = "validated" =>
              valid = (/\ ig_username # <<>>
                       /\ \/ n = c
                          \/ IsSubstring(n, c)
                          \/ IsSubstring(c, n)
                          \/ StripSeparators(n) = StripSeparators(c))

\* a candidate contained in the cleaned target, but not containing it, has
\* been scored medium
C4_Witness ==
    /\ pc = "scored"
    /\ ig_username # <<>>
    /\ IsSubstring(Lower(ig_username), CleanUsername(username))
    /\ ~IsSubstring(CleanUsername(username), Lower(ig_username))
    /\ score = "medium"

-----------------------------------------------------------------------------
(* The bio link extractor of get_channel_description *)

HTTPS_INSTAGRAM == <<"h","t","t","p","s",":","/","/","i","n","s","t","a","g","r","a","m",".","c","o","m","/">>

\* instagram_patterns: the literal each pattern starts with (matched with
\* re.IGNORECASE) and whether \s* follows it; the group is [a-zA-Z0-9_.]+
instagram_patterns ==
    << [literal |-> INSTAGRAM_COM,           spaces |-> FALSE],
       [literal |-> <<"@">>,                 spaces |-> FALSE],
       [literal |-> <<"i","g",":">>,         spaces |-> TRUE],
       [literal |-> <<"i","n","s","t","a",":">>, spaces |-> TRUE] >>

\* [a-zA-Z0-9_.]
HandleChars == LowerSet \cup UpperSet \cup Digits \cup {"_", "."}
IsHandleChar(c) == c \in HandleChars

\* first position at or after k that holds no whitespace (\s* is greedy)
RECURSIVE SkipSpaces(_, _)
SkipSpaces(s, k) ==
    IF k <= Len(s) /\ s[k] = " " THEN SkipSpaces(s, k + 1) ELSE k

\* the longest run of handle characters of s from position k
RECURSIVE HandleRun(_, _)
HandleRun(s, k) ==
    IF k > Len(s) \/ ~IsHandleChar(s[k]) THEN <<>>
    ELSE <<s[k]>> \o HandleRun(s, k + 1)

\* the match of pattern p starting exactly at position k: its group, or None
MatchAt(s, p, k) ==
    LET lit == instagram_patterns[p].literal
        j   == k + Len(lit)
    IN  IF ~(j - 1 <= Len(s) /\ Lower(SubSeq(s, k, j - 1)) = lit) THEN None
        ELSE LET g == IF instagram_patterns[p].spaces THEN SkipSpaces(s, j) ELSE j
                 h == HandleRun(s, g)
             IN  IF h = <<>> THEN None
                 ELSE h

\* position after the match of pattern p that starts at k
MatchEnd(s, p, k) ==
    LET j == k + Len(instagram_patterns[p].literal)
        g == IF instagram_patterns[p].spaces THEN SkipSpaces(s, j) ELSE j
    IN  g + Len(HandleRun(s, g))

\* re.findall(pattern, description, re.IGNORECASE): the non-overlapping
\* matches from left to right, each with the position it starts at
RECURSIVE FindAll(_, _, _)
FindAll(s, p, k) ==
    IF k > Len(s) THEN <<>>
    ELSE IF MatchAt(s, p, k) = None THEN FindAll(s, p, k + 1)
    ELSE <<[pattern |-> p, start |-> k, handle |-> MatchAt(s, p, k)]>>
             \o FindAll(s, p, MatchEnd(s, p, k))

\* variant of the extractor that keeps the first occurrence of each handle
RECURSIVE DropRepeated(_)
DropRepeated(ms) ==
    IF ms = <<>> THEN <<>>
    ELSE LET front == DropRepeated(SubSeq(ms, 1, Len(ms) - 1))
             last  == ms[Len(ms)]
         IN  IF \E k \in 1..Len(front) : front[k].handle = last.handle
             THEN front
             ELSE Append(front, last)

get_channel_description_dedup(text) ==
    DropRepeated(FindAll(text, 1, 1) \o FindAll(text, 2, 1)
                     \o FindAll(text, 3, 1) \o FindAll(text, 4, 1))

\* the loops over instagram_patterns and over each pattern's matches: the
\* matches in the order their links are appended
get_channel_description(text) ==
    FindAll(text, 1, 1) \o FindAll(text, 2, 1)
        \o FindAll(text, 3, 1) \o FindAll(text, 4, 1)

\* f"https://instagram.com/{match}"
ProfileLink(handle) == HTTPS_INSTAGRAM \o handle

-----------------------------------------------------------------------------
(* Extractor specification: descriptions built from a few pieces *)

\* most pieces a description is put together from
MaxPieces == 4

Pieces ==
    { INSTAGRAM_COM, <<"@">>, <<"i","g",":">>, <<"I","n","s","t","a",":">>,
      <<" ">>, <<"a">>, <<"B">> }

RECURSIVE Concats(_)
Concats(n) ==
    IF n = 0 THEN {<<>>}
    ELSE LET shorter == Concats(n - 1)
         IN  shorter \cup {s \o q : s \in shorter, q \in Pieces}

InitExtract ==
    /\ pc = "extract_input"
    /\ description \in Concats(MaxPieces)
    /\ instagram_links = <<>>
    /\ match_log = <<>>
    /\ IdleScore /\ IdleRank /\ IdleResolve

\* get_channel_description on the channel's description
ExtractLinks ==
    /\ pc = "extract_input"
    /\ LET ms == get_channel_description(description)
       IN  /\ instagram_links' = [k \in 1..Len(ms) |-> ProfileLink(ms[k].handle)]
           /\ match_log' = [k \in 1..Len(ms) |->
                               [pattern |-> ms[k].pattern, start |-> ms[k].start]]
    /\ pc' = "extracted"
    /\ UNCHANGED description
    /\ UNCHANGED <<scoreVars, rankVars, resolveVars>>

NextExtract == ExtractLinks

SpecExtract == InitExtract /\ [][NextExtract]_vars

-----------------------------------------------------------------------------
(* Claims about the extractor *)

\* the handle a link carries after the canonical prefix
LinkHandle(link) == SubSeq(link, Len(HTTPS_INSTAGRAM) + 1, Len(link))

\* https://instagram.com/<handle> with a non-empty handle of handle characters
IsCanonical(link) ==
    /\ StartsWith(link, HTTPS_INSTAGRAM)
    /\ LinkHandle(link) # <<>>
    /\ \A k \in 1..Len(LinkHandle(link)) : IsHandleChar(LinkHandle(link)[k])

\* C10 as stated: the candidates come in the order their matches appear in
\* the text, no handle appears twice, and every URL is canonical.
C10_Original ==
    pc = "extracted" =>
        /\ \A j, k \in 1..Len(instagram_links) :
              j < k => /\ match_log[j].start < match_log[k].start
                       /\ LinkHandle(instagram_links[j]) # LinkHandle(instagram_links[k])
        /\ \A k \in 1..Len(instagram_links) : IsCanonical(instagram_links[k])

\* C10 amended: the candidates come pattern by pattern in the order of the
\* four patterns (URL, @, ig:, insta:) and, within one pattern, in the order
\* of their matches in the text; every match of a pattern that does not
\* overlap an earlier match of that pattern contributes a candidate, so
\* repeated handles are kept; every URL is canonical.
C10_PatternOrder ==
    pc = "extracted" =>
        /\ Len(match_log) = Len(instagram_links)
        /\ \A j, k \in 1..Len(instagram_links) :
              j < k => \/ match_log[j].pattern < match_log[k].pattern
                       \/ /\ match_log[j].pattern = match_log[k].pattern
                          /\ match_log[j].start < match_log[k].start
        /\ \A p \in 1..Len(instagram_patterns), q \in 1..Len(description) :
              MatchAt(description, p, q) # None =>
                  \E k \in 1..Len(instagram_links) :
                      /\ match_log[k].pattern = p
                      /\ \/ /\ match_log[k].start = q
                            /\ instagram_links[k]
                                   = ProfileLink(MatchAt(description, p, q))
                         \/ /\ match_log[k].start < q
                            /\ q < MatchEnd(description, p, match_log[k].start)
        /\ \A k \in 1..Len(instagram_links) : IsCanonical(instagram_links[k])

\* a description whose later match is listed first, and one whose handle is
\* listed twice
C10_Witness ==
    /\ pc = "extracted"
    /\ \E j, k \in 1..Len(instagram_links) :
          /\ j < k
          /\ \/ match_log[j].start > match_log[k].start
             \/ instagram_links[j] = instagram_links[k]

-----------------------------------------------------------------------------
(* The ranker: main and rank_commenters of rank_commenters.py *)

\* a missing value of a frame
NaN == <<"NaN">>

YOUTUBE_CHANNEL == <<"h","t","t","p","s",":","/","/","y","o","u","t","u","b","e",".","c","o","m","/","c","h","a","n","n","e","l","/">>

\* f"https://youtube.com/channel/{author_channel_id}" if author_channel_id else ''
ChannelUrl(author_channel_id) ==
    IF author_channel_id = <<>> THEN <<>> ELSE YOUTUBE_CHANNEL \o author_channel_id

\* comment_data as get_video_comments builds it (the fields the ranker reads)
CommentData(name, channel_id, likes, video) ==
    [ author_name        |-> name,
      author_channel_id  |-> channel_id,
      author_channel_url |-> ChannelUrl(channel_id),
      like_count         |-> likes,
      video_id           |-> video ]

\* to_csv followed by pd.read_csv: an empty field is read back as NaN
ReadCell(cell) == IF cell = <<>> THEN NaN ELSE cell

ReadCsv(rows) ==
    [k \in 1..Len(rows) |->
        [rows[k] EXCEPT !.author_name        = ReadCell(@),
                        !.author_channel_id  = ReadCell(@),
                        !.author_channel_url = ReadCell(@)]]

\* the group key of a row
KeyOf(row) == <<row.author_name, row.author_channel_id, row.author_channel_url>>

\* df.groupby([...]): one group per key; a row with NaN in a key column
\* belongs to no group (dropna=True is the default)
GroupKeys(frame) ==
    {key \in {KeyOf(frame[k]) : k \in 1..Len(frame)} :
        \A c \in 1..3 : key[c] # NaN}

RECURSIVE SumLikes(_, _)
SumLikes(frame, members) ==
    IF members = {} THEN 0
    ELSE LET k == CHOOSE m \in members : TRUE
         IN  frame[k].like_count + SumLikes(frame, members \ {k})

\* the aggregation of one group: count, sum and nunique; the mean of the
\* likes is total_likes / total_comments
Aggregate(frame, key) ==
    LET members == {k \in 1..Len(frame) : KeyOf(frame[k]) = key}
    IN  [ author_name         |-> key[1],
          author_channel_id   |-> key[2],
          author_channel_url  |-> key[3],
          total_comments      |-> Cardinality(members),
          total_likes         |-> SumLikes(frame, members),
          videos_commented_on |-> Cardinality({frame[k].video_id : k \in members}) ]

\* engagement_score as an exact fraction num / den:
\*   total_comments * 0.4 + total_likes * 0.3 + videos_commented_on * 0.2
\*     + (total_likes / total_comments) * 0.1
EngagementScore(agg) ==
    [ num |-> (4 * agg.total_comments + 3 * agg.total_likes
                  + 2 * agg.videos_commented_on) * agg.total_comments
              + agg.total_likes,
      den |-> 10 * agg.total_comments ]

\* comparison of two scores (the denominators are positive)
ScoreGreaterEq(x, y) == x.num * y.den >= y.num * x.den
ScoreEq(x, y)        == x.num * y.den = y.num * x.den

\* the characters of the model in code point order
CodePoints ==
    <<" ", ".", "/", "0","1","2","3","4","5","6","7","8","9", ":", "@">>
        \o UpperLetters \o <<"_">> \o LowerLetters
CodeOf(c) == CHOOSE k \in 1..Len(CodePoints) : CodePoints[k] = c

\* a < b for two strings
RECURSIVE StringLess(_, _)
StringLess(a, b) ==
    IF b = <<>> THEN FALSE
    ELSE IF a = <<>> THEN TRUE
    ELSE IF a[1] = b[1] THEN StringLess(Tail(a), Tail(b))
    ELSE CodeOf(a[1]) < CodeOf(b[1])

\* x < y for two group keys
KeyLess(x, y) ==
    \/ StringLess(x[1], y[1])
    \/ x[1] = y[1] /\ StringLess(x[2], y[2])
    \/ x[1] = y[1] /\ x[2] = y[2] /\ StringLess(x[3], y[3])

\* the permutations of 1..n
RowOrders(n) ==
    {p \in [1..n -> 1..n] : \A j, k \in 1..n : j # k => p[j] # p[k]}

\* commenter_stats with its engagement_score column: groupby sorts the
\* groups by key (sort=True is the default)
CommenterStats(frame) ==
    LET keys  == GroupKeys(frame)
        order == CHOOSE s \in [1..Cardinality(keys) -> keys] :
                     \A j, k \in 1..Cardinality(keys) : j < k => KeyLess(s[j], s[k])
    IN  [k \in 1..Cardinality(keys) |->
            [stats |-> Aggregate(frame, order[k]),
             engagement_score |-> EngagementScore(Aggregate(frame, order[k]))]]

\* variant of the sort with ascending=True
SortValuesAscending(stats) ==
    LET p == CHOOSE q \in RowOrders(Len(stats)) :
                 \A j, k \in 1..Len(stats) :
                     j < k =>
                         \/ ~ScoreGreaterEq(stats[q[j]].engagement_score,
                                            stats[q[k]].engagement_score)
                         \/ /\ ScoreEq(stats[q[j]].engagement_score,
                                       stats[q[k]].engagement_score)
                            /\ q[j] < q[k]
    IN  [k \in 1..Len(stats) |-> stats[p[k]]]

\* sort_values('engagement_score', ascending=False): descending scores; on
\* frames as small as the modelled ones the default sort kind leaves rows
\* of equal score in the order they had
SortValues(stats) ==
    LET p == CHOOSE q \in RowOrders(Len(stats)) :
                 \A j, k \in 1..Len(stats) :
                     j < k =>
                         \/ ~ScoreGreaterEq(stats[q[k]].engagement_score,
                                            stats[q[j]].engagement_score)
                         \/ /\ ScoreEq(stats[q[j]].engagement_score,
                                       stats[q[k]].engagement_score)
                            /\ q[j] < q[k]
    IN  [k \in 1..Len(stats) |-> stats[p[k]]]

\* commenter_stats['rank'] = range(1, len(commenter_stats) + 1)
AddRank(sorted) ==
    [k \in 1..Len(sorted) |->
        [stats |-> sorted[k].stats,
         engagement_score |-> sorted[k].engagement_score,
         rank |-> k]]

\* DataFrame.head(n): the first n rows, or all but the last -n for n < 0
FrameHead(frame, n) ==
    IF n >= 0 THEN SubSeq(frame, 1, IF n < Len(frame) THEN n ELSE Len(frame))
    ELSE SubSeq(frame, 1, Len(frame) + n)

\* rank_commenters(df, limit)
rank_commenters(frame, n) ==
    FrameHead(AddRank(SortValues(CommenterStats(frame))), n)

-----------------------------------------------------------------------------
(* Ranker specification: every small comment file and limit *)

\* most comments in the comment file
MaxComments == 3

\* the commenters with a channel id: display name and id
Authors ==
    { <<<<"a">>, <<"U","1">>>>, <<<<"b">>, <<"U","2">>>>, <<<<"c">>, <<"U","3">>>> }
LikeCounts == {0, 1}
VideoIds   == {"v1", "v2"}

\* the comments of the file: any comment of a commenter with a channel id,
\* and a comment whose authorChannelId the API did not give ('' in the file)
CommentRecords ==
    {CommentData(a[1], a[2], l, v) : a \in Authors, l \in LikeCounts, v \in VideoIds}
        \cup {CommentData(<<"a">>, <<>>, 1, "v1")}

RECURSIVE CommentFiles(_)
CommentFiles(n) ==
    IF n = 0 THEN {<<>>}
    ELSE LET shorter == CommentFiles(n - 1)
         IN  shorter \cup {Append(f, r) : f \in {g \in shorter : Len(g) = n - 1},
                                          r \in CommentRecords}

Limits == (-1)..MaxComments

InitRank ==
    /\ pc = "rank_input"
    /\ comments \in CommentFiles(MaxComments)
    /\ limit = 0
    /\ ranked = <<>>
    /\ IdleScore /\ IdleExtract /\ IdleResolve

\* main: read the comment file, rank, keep the first --limit rows
RankCommenters ==
    /\ pc = "rank_input"
    /\ comments # <<>>
    /\ \E n \in Limits :
          /\ limit' = n
          /\ ranked' = rank_commenters(ReadCsv(comments), n)
    /\ pc' = "ranked"
    /\ UNCHANGED comments
    /\ UNCHANGED <<scoreVars, extractVars, resolveVars>>

\* main on the file the extractor writes when it found no comment: that
\* frame has no columns, and reading or grouping it raises
RankEmptyFile ==
    /\ pc = "rank_input"
    /\ comments = <<>>
    /\ pc' = "rank_failed"
    /\ UNCHANGED <<comments, limit, ranked>>
    /\ UNCHANGED <<scoreVars, extractVars, resolveVars>>

NextRank == RankCommenters \/ RankEmptyFile

SpecRank == InitRank /\ [][NextRank]_vars

-----------------------------------------------------------------------------
(* Claims about the ranker *)

RECURSIVE SumTotalComments(_)
SumTotalComments(frame) ==
    IF frame = <<>> THEN 0
    ELSE frame[1].stats.total_comments + SumTotalComments(Tail(frame))

\* the identity triple of a row of the ranked frame
RankedKey(row) ==
    <<row.stats.author_name, row.stats.author_channel_id,
      row.stats.author_channel_url>>

\* the distinct identity triples of the comment set
IdentityTriples == {KeyOf(comments[k]) : k \in 1..Len(comments)}

\* position of the first comment of the commenter of a ranked row
FirstSeen(row) ==
    CHOOSE k \in 1..Len(comments) :
        /\ KeyOf(comments[k]) = RankedKey(row)
        /\ \A m \in 1..(k - 1) : KeyOf(comments[m]) # RankedKey(row)

\* C6 as stated: without truncation every comment, one with an empty channel
\* id included, is counted in exactly one aggregate, and the total_comments
\* add up to the number of comments.
C6_Original ==
    (pc = "ranked" /\ limit >= Len(comments)) =>
        /\ SumTotalComments(ranked) = Len(comments)
        /\ \A k \in 1..Len(comments) :
              Cardinality({j \in 1..Len(ranked) :
                              RankedKey(ranked[j]) = KeyOf(comments[k])}) = 1

\* C7: the rank values of the K returned aggregates are 1..K in order, no
\* identity triple appears twice, and a smaller rank never has a smaller
\* engagement_score.
C7_RanksContiguous ==
    pc = "ranked" =>
        /\ \A k \in 1..Len(ranked) : ranked[k].rank = k
        /\ \A j, k \in 1..Len(ranked) :
              j # k => RankedKey(ranked[j]) # RankedKey(ranked[k])
        /\ \A j, k \in 1..Len(ranked) :
              ranked[j].rank < ranked[k].rank =>
                  ScoreGreaterEq(ranked[j].engagement_score,
                                 ranked[k].engagement_score)

\* three commenters have been ranked and the first outscores the last
C7_Witness ==
    /\ pc = "ranked"
    /\ Len(ranked) = 3
    /\ ~ScoreEq(ranked[1].engagement_score, ranked[3].engagement_score)
    /\ ScoreEq(ranked[2].engagement_score, ranked[3].engagement_score)

\* C8 as stated: of two aggregates with equal engagement_score the one whose
\* commenter was encountered first in the comments is ranked ahead.
C8_Original ==
    pc = "ranked" =>
        \A j, k \in 1..Len(ranked) :
            (/\ ScoreEq(ranked[j].engagement_score, ranked[k].engagement_score)
             /\ FirstSeen(ranked[j]) < FirstSeen(ranked[k]))
                => ranked[j].rank < ranked[k].rank

\* C9 as stated: with K distinct identity triples and a limit L >= 0 the
\* result has min(L, K) rows and is a prefix, ranks included, of the result
\* for the limit K.
C9_Original ==
    (pc = "ranked" /\ limit >= 0) =>
        LET K == Cardinality(IdentityTriples)
        IN  /\ Len(ranked) = (IF limit < K THEN limit ELSE K)
            /\ ranked = SubSeq(rank_commenters(ReadCsv(comments), K),
                               1, Len(ranked))

-----------------------------------------------------------------------------
(* The resolver: src/scripts/find_instagram_profiles.py *)

\* the value None where a dict is expected
NoData == [none |-> TRUE]

\* ', '.join(channel_data['instagram_links']) in get_video_comments
RECURSIVE JoinLinks(_)
JoinLinks(links) ==
    IF links = <<>> THEN <<>>
    ELSE IF Len(links) = 1 THEN links[1]
    ELSE links[1] \o <<",", " ">> \o JoinLinks(Tail(links))

\* the instagram_from_description cell of a commenter with this channel
\* description, as the extractor writes it and read_csv reads it back
DescriptionCell(text) ==
    LET ms == get_channel_description(text)
    IN  ReadCell(JoinLinks([k \in 1..Len(ms) |-> ProfileLink(ms[k].handle)]))

\* s.split(sep) for a one-character separator
RECURSIVE Split(_, _)
Split(s, sep) ==
    IF \A k \in 1..Len(s) : s[k] # sep THEN <<s>>
    ELSE LET k == CHOOSE m \in 1..Len(s) :
                      s[m] = sep /\ \A n \in 1..(m - 1) : s[n] # sep
         IN  <<SubSeq(s, 1, k - 1)>> \o Split(SubSeq(s, k + 1, Len(s)), sep)

\* s.strip()
RECURSIVE Strip(_)
Strip(s) ==
    IF s = <<>> THEN s
    ELSE IF s[1] = " " THEN Strip(Tail(s))
    ELSE IF s[Len(s)] = " " THEN Strip(SubSeq(s, 1, Len(s) - 1))
    ELSE s

\* variant of the bio check that takes the last link of the cell
find_instagram_from_description_last(description_links) ==
    IF description_links # <<>> /\ Strip(description_links) # <<>>
    THEN LET links      == Split(description_links, ",")
             first_link == Strip(links[Len(links)])
         IN  IF first_link # <<>>
             THEN [ instagram_url      |-> first_link,
                    instagram_username |-> Split(first_link, "/")[Len(Split(first_link, "/"))],
                    match_confidence   |-> "high",
                    source             |-> "channel_description" ]
             ELSE NoData
    ELSE NoData

find_instagram_from_description(description_links) ==
    IF description_links # <<>> /\ Strip(description_links) # <<>>
    THEN LET links      == Split(description_links, ",")
             first_link == Strip(links[1])
         IN  IF first_link # <<>>
             THEN [ instagram_url      |-> first_link,
                    instagram_username |-> Split(first_link, "/")[Len(Split(first_link, "/"))],
                    match_confidence   |-> "high",
                    source             |-> "channel_description" ]
             ELSE NoData
    ELSE NoData

\* s.split(sep)[-1] for a separator of several characters
RECURSIVE AfterLast(_, _)
AfterLast(s, sep) ==
    IF ~IsSubstring(sep, s) THEN s
    ELSE LET k == CHOOSE m \in 1..Len(s) :
                      OccursAt(s, sep, m) /\ \A n \in 1..(m - 1) : ~OccursAt(s, sep, n)
         IN  AfterLast(SubSeq(s, k + Len(sep), Len(s)), sep)

\* link.split('instagram.com/')[-1].split('/')[0].split('?')[0]
LinkUsername(link) ==
    Split(Split(AfterLast(link, INSTAGRAM_COM), "/")[1], "?")[1]

\* 'instagram.com/' in link and not any(x in link for x in ['/p/', '/reel/', '/tv/'])
IsProfileLink(link) ==
    /\ IsSubstring(INSTAGRAM_COM, link)
    /\ ~IsSubstring(<<"/","p","/">>, link)
    /\ ~IsSubstring(<<"/","r","e","e","l","/">>, link)
    /\ ~IsSubstring(<<"/","t","v","/">>, link)

\* a loop over data['items'] that keeps the last item that passes both
\* checks
FirstAcceptedLast(items, clean_username) ==
    LET passing == {j \in 1..Len(items) :
                       /\ IsProfileLink(items[j])
                       /\ SimilarityCheck(clean_username, LinkUsername(items[j])) # "none"}
    IN  IF passing = {} THEN NoData
        ELSE LET link == items[CHOOSE j \in passing : \A m \in passing : m <= j]
             IN  [ instagram_url      |-> link,
                   instagram_username |-> LinkUsername(link),
                   match_confidence   |-> SimilarityCheck(clean_username,
                                                          LinkUsername(link)),
                   source             |-> "google_search" ]

\* the loop over data['items']: the first item that passes both checks
RECURSIVE FirstAccepted(_, _)
FirstAccepted(items, clean_username) ==
    IF items = <<>> THEN NoData
    ELSE LET link == items[1]
         IN  IF /\ IsProfileLink(link)
                /\ SimilarityCheck(clean_username, LinkUsername(link)) # "none"
             THEN [ instagram_url      |-> link,
                    instagram_username |-> LinkUsername(link),
                    match_confidence   |-> SimilarityCheck(clean_username,
                                                           LinkUsername(link)),
                    source             |-> "google_search" ]
             ELSE FirstAccepted(Tail(items), clean_username)

\* search_instagram_profile on the response of the search request; a
\* request that raises is caught and gives None
search_instagram_profile(name, response) ==
    IF response.raises THEN NoData
    ELSE IF response.status_code = 200
         THEN FirstAccepted(response.items, CleanUsername(name))
         ELSE NoData

\* the empty instagram fields of a commenter nothing was found for
NotFound ==
    [ instagram_url |-> <<>>, instagram_username |-> <<>>,
      match_confidence |-> <<>>, source |-> <<>> ]

\* result = row.to_dict(); result.update(instagram_data)
ResultRow(row, instagram_data) ==
    [ rank               |-> row.rank,
      author_name        |-> row.author_name,
      instagram_url      |-> instagram_data.instagram_url,
      instagram_username |-> instagram_data.instagram_username,
      match_confidence   |-> instagram_data.match_confidence,
      source             |-> instagram_data.source ]

\* "if i >= 50": the index label from which a search ends the loop
SearchStop == 50

-----------------------------------------------------------------------------
(* Resolver specification: frames of up to MaxRows commenters *)

\* most rows of the input frame
MaxRows == 52

\* the frame repeats a pattern of this many commenters
Period == 2

\* the commenters: display name, channel description, and the cell a
\* hand-written input file may hold instead of the extractor's
Commenters ==
    { [name |-> <<"a","b">>, text |-> <<"i","g",":","c","d"," ","@","a","b">>,
       blank |-> FALSE],
      [name |-> <<"A"," ","b">>, text |-> <<>>, blank |-> FALSE],
      [name |-> <<"z","z">>, text |-> <<>>, blank |-> TRUE],
      [name |-> <<"e","r","r">>, text |-> <<>>, blank |-> FALSE],
      [name |-> <<"n","o">>, text |-> <<>>, blank |-> TRUE],
      [name |-> <<"y","y">>, text |-> <<>>, blank |-> TRUE],
      [name |-> <<"@"," ">>, text |-> <<>>, blank |-> TRUE] }

\* the column is missing from a frame that was not written by the extractor
Absent == <<"absent">>

\* the cell of each commenter in a frame that has the column
CellOf ==
    [c \in Commenters |-> IF c.blank THEN <<" ">> ELSE DescriptionCell(c.text)]

Row(k, c, with_column) ==
    [ rank                       |-> k,
      author_name                |-> c.name,
      channel_description        |-> c.text,
      instagram_from_description |-> IF with_column THEN CellOf[c] ELSE Absent ]

\* what requests.get returns for the query of a cleaned display name
\* ('num': 3 asks for at most three items)
GoogleSearch(clean_username) ==
    CASE clean_username = <<"a","b">> ->
             [ raises |-> FALSE, status_code |-> 200,
               items |-> << WWW_INSTAGRAM \o <<"p","/","a","b","/">>,
                            WWW_INSTAGRAM \o <<"a","b","/">>,
                            WWW_INSTAGRAM \o <<"a","b","x">> >> ]
      [] clean_username = <<"z","z">> ->
             [ raises |-> FALSE, status_code |-> 200,
               items |-> << WWW_INSTAGRAM \o <<"q","q","?","h","l">> >> ]
      [] clean_username = <<"e","r","r">> ->
             [ raises |-> TRUE, status_code |-> 0, items |-> <<>> ]
      [] clean_username = <<"n","o">> ->
             [ raises |-> FALSE, status_code |-> 403,
               items |-> << WWW_INSTAGRAM \o <<"n","o">> >> ]
      [] clean_username = <<"y","y">> ->
             [ raises |-> FALSE, status_code |-> 200,
               items |-> << WWW_INSTAGRAM \o <<"q","q">>,
                            WWW_INSTAGRAM >> ]
      [] clean_username = <<>> ->
             [ raises |-> FALSE, status_code |-> 200,
               items |-> << WWW_INSTAGRAM \o <<"q","q">> >> ]
      [] OTHER ->
             [ raises |-> FALSE, status_code |-> 200, items |-> <<>> ]

\* the numbers of rows of the input frames: short frames, and frames that
\* end around the index label that stops the search
FrameLengths == (0..Period) \cup ((MaxRows - Period)..MaxRows)

InitResolve ==
    /\ pc = "start"
    /\ credentials \in BOOLEAN
    /\ has_bio_column \in BOOLEAN
    /\ \E n \in FrameLengths, pattern \in [0..(Period - 1) -> Commenters] :
          df = [k \in 1..n |-> Row(k, pattern[(k - 1) % Period], has_bio_column)]
    /\ i = 0
    /\ results = <<>>
    /\ search_log = <<>>
    /\ output = [written |-> FALSE, rows |-> <<>>]
    /\ IdleScore /\ IdleExtract /\ IdleRank

\* main returns when an API credential is missing
MissingCredentials ==
    /\ pc = "start"
    /\ ~credentials
    /\ pc' = "returned"
    /\ UNCHANGED resolveVars
    /\ UNCHANGED <<scoreVars, extractVars, rankVars>>

\* main writes an empty frame for an empty input
EmptyInput ==
    /\ pc = "start"
    /\ credentials
    /\ df = <<>>
    /\ output' = [written |-> TRUE, rows |-> <<>>]
    /\ pc' = "returned"
    /\ UNCHANGED <<df, has_bio_column, credentials, i, results, search_log>>
    /\ UNCHANGED <<scoreVars, extractVars, rankVars>>

\* main enters the loop over df.iterrows()
LoadData ==
    /\ pc = "start"
    /\ credentials
    /\ df # <<>>
    /\ pc' = "loop"
    /\ UNCHANGED resolveVars
    /\ UNCHANGED <<scoreVars, extractVars, rankVars>>

\* the row with index label i
CurrentRow == df[i + 1]

\* 'instagram_from_description' in row and row['instagram_from_description']
\* (a string read from the file is never empty, and NaN is truthy)
HasDescriptionCell == has_bio_column

\* one iteration that finds the profile in the description cell
ResolveFromDescription ==
    /\ pc = "loop"
    /\ i < Len(df)
    /\ HasDescriptionCell
    /\ CurrentRow.instagram_from_description # NaN
    /\ find_instagram_from_description(CurrentRow.instagram_from_description) # NoData
    /\ results' = Append(results,
           ResultRow(CurrentRow,
               find_instagram_from_description(CurrentRow.instagram_from_description)))
    /\ i' = i + 1
    /\ UNCHANGED <<pc, df, has_bio_column, credentials, search_log, output>>
    /\ UNCHANGED <<scoreVars, extractVars, rankVars>>

\* one iteration on a NaN cell: find_instagram_from_description calls
\* strip() on a float, and the AttributeError ends main
MissingDescriptionRaises ==
    /\ pc = "loop"
    /\ i < Len(df)
    /\ HasDescriptionCell
    /\ CurrentRow.instagram_from_description = NaN
    /\ pc' = "raised"
    /\ UNCHANGED resolveVars
    /\ UNCHANGED <<scoreVars, extractVars, rankVars>>

\* one iteration that falls back to the search, then stops the loop when
\* the index label has reached SearchStop
SearchFallback ==
    /\ pc = "loop"
    /\ i < Len(df)
    /\ \/ ~HasDescriptionCell
       \/ /\ CurrentRow.instagram_from_description # NaN
          /\ find_instagram_from_description(CurrentRow.instagram_from_description) = NoData
    /\ search_log' = Append(search_log, i)
    /\ LET instagram_data ==
               search_instagram_profile(CurrentRow.author_name,
                   GoogleSearch(CleanUsername(CurrentRow.author_name)))
       IN  results' = Append(results,
               ResultRow(CurrentRow,
                   IF instagram_data # NoData THEN instagram_data ELSE NotFound))
    /\ IF i >= SearchStop
       THEN pc' = "break" /\ i' = i
       ELSE pc' = pc /\ i' = i + 1
    /\ UNCHANGED <<df, has_bio_column, credentials, output>>
    /\ UNCHANGED <<scoreVars, extractVars, rankVars>>

\* after the loop: results_df.to_csv(args.output_file)
SaveResults ==
    /\ \/ pc = "loop" /\ i = Len(df)
       \/ pc = "break"
    /\ output' = [written |-> TRUE, rows |-> results]
    /\ pc' = "saved"
    /\ UNCHANGED <<df, has_bio_column, credentials, i, results, search_log>>
    /\ UNCHANGED <<scoreVars, extractVars, rankVars>>

NextResolve ==
    \/ MissingCredentials
    \/ EmptyInput
    \/ LoadData
    \/ ResolveFromDescription
    \/ MissingDescriptionRaises
    \/ SearchFallback
    \/ SaveResults

SpecResolve == InitResolve /\ [][NextResolve]_vars

-----------------------------------------------------------------------------
(* Claims about the resolver *)

\* the candidates the extractor finds in each commenter's description
CandidatesOf ==
    [text \in {c.text : c \in Commenters} |-> get_channel_description(text)]

\* the index labels searched for so far
Searched == {search_log[k] : k \in 1..Len(search_log)}

\* C1 as stated: a run never issues more than 50 search attempts.
C1_Original == Len(search_log) <= SearchStop

\* C2 as stated: the run writes one record per input commenter, in input
\* order, also for the commenters that follow the end of the search budget.
C2_Original ==
    pc = "saved" =>
        /\ Len(output.rows) = Len(df)
        /\ \A k \in 1..Len(output.rows) : output.rows[k].rank = df[k].rank

SearchFailed(name) ==
    LET response == GoogleSearch(CleanUsername(name))
    IN  response.raises \/ response.status_code # 200

\* the display names of the commenters whose search fails
FailedNames == {name \in {c.name : c \in Commenters} : SearchFailed(name)}

\* how often the index label n has been searched for
SearchCount(n) == Cardinality({j \in 1..Len(search_log) : search_log[j] = n})

\* C11 as stated: a commenter whose search failed is recorded with no match
\* after a single attempt, the records of the earlier commenters are in
\* place, and the loop goes on to the next commenter of the frame (which it
\* has either not handled yet or has read a NaN cell of).
C11_Original ==
    \A k \in 1..Len(results) :
        ((k - 1) \in Searched /\ df[k].author_name \in FailedNames) =>
            /\ results[k] = ResultRow(df[k], NotFound)
            /\ SearchCount(k - 1) = 1
            /\ \A j \in 1..(k - 1) :
                  /\ results[j].rank = df[j].rank
                  /\ results[j].author_name = df[j].author_name
            /\ (Len(results) = k /\ k < Len(df)) =>
                  (pc \in {"loop", "raised"} /\ i = k)

\* C12 as stated: a run without the search credentials still ends with an
\* output file that holds one row per input commenter.
C12_Original ==
    (pc = "returned" /\ ~credentials) =>
        /\ output.written
        /\ Len(output.rows) = Len(df)

\* the display names of the commenters
CommenterNames == {c.name : c \in Commenters}

\* the items of the answer to the search for each display name
ItemsFor == [name \in CommenterNames |-> GoogleSearch(CleanUsername(name)).items]

\* the positions of the returned items that are profile links and whose
\* handle scores other than none against the cleaned display name
Passing ==
    [name \in CommenterNames |->
        {j \in 1..Len(ItemsFor[name]) :
            /\ IsProfileLink(ItemsFor[name][j])
            /\ SimilarityCheck(CleanUsername(name),
                               LinkUsername(ItemsFor[name][j])) # "none"}]

\* the scorer's tier for the handle of each returned item
TierOf ==
    [name \in CommenterNames |->
        [j \in 1..Len(ItemsFor[name]) |->
            SimilarityCheck(CleanUsername(name), LinkUsername(ItemsFor[name][j]))]]

\* the display names whose search is answered with status 200
Answered == {name \in CommenterNames : ~SearchFailed(name)}

\* C13: for every commenter whose search was answered, the record holds the
\* first returned profile link (in returned order) whose extracted handle
\* scores other than none against the cleaned display name, with the
\* scorer's tier for that handle as confidence and the search as source; if
\* no returned profile link scores other than none the record has no match.
C13_FirstPassingCandidate ==
    \A k \in 1..Len(results) :
        ((k - 1) \in Searched /\ df[k].author_name \in Answered) =>
            LET name == df[k].author_name
            IN  IF Passing[name] = {}
                THEN results[k] = ResultRow(df[k], NotFound)
                ELSE LET j == CHOOSE m \in Passing[name] :
                                  \A n \in Passing[name] : m <= n
                         link == ItemsFor[name][j]
                     IN  /\ results[k].instagram_url = link
                         /\ results[k].instagram_username = LinkUsername(link)
                         /\ results[k].match_confidence = TierOf[name][j]
                         /\ results[k].match_confidence \in {"high", "medium"}
                         /\ results[k].source = "google_search"
                         /\ results[k].rank = df[k].rank

\* one run has searched for a commenter whose first profile link was passed
\* over and whose second one was accepted as medium, and for a commenter
\* none of whose links passed
C13_Witness ==
    /\ \E k \in 1..Len(results) :
          /\ (k - 1) \in Searched
          /\ Passing[df[k].author_name] = {2}
          /\ IsProfileLink(ItemsFor[df[k].author_name][1])
          /\ results[k].instagram_url = ItemsFor[df[k].author_name][2]
          /\ results[k].match_confidence = "medium"
    /\ \E k \in 1..Len(results) :
          /\ (k - 1) \in Searched
          /\ df[k].author_name \in Answered
          /\ ItemsFor[df[k].author_name] # <<>>
          /\ Passing[df[k].author_name] = {}
          /\ results[k].source = <<>>

\* C14 as stated: every handle the search fallback accepts shares at least
\* one character with the cleaned display name, so a display name that
\* cleans to the empty string and a link with an empty handle are never
\* matched.
C14_Original ==
    \A k \in 1..Len(results) :
        results[k].source = "google_search" =>
            CharSet(CleanUsername(df[k].author_name))
                \cap CharSet(Lower(results[k].instagram_username)) # {}

=============================================================================
